---------------------------- MODULE Spec2Model ----------------------------
(***************************************************************************)
(* Model of src/main.py: the liquidity-aware arbitrage scanner.            *)
(*                                                                         *)
(*   - compute_fillable_base_amount_from_asks / ..._quote_amount_from_bids *)
(*     (the depth walks),                                                  *)
(*   - check_cross_exchange_liquidity, simulate_triangular_with_depth      *)
(*     (the evaluators),                                                   *)
(*   - scan_cross_exchanges, scan_triangular_for_all (the scanners).       *)
(*                                                                         *)
(* Numbers.  The program computes in Python floats.  The model computes in *)
(* exact arithmetic over numbers of the form (x + y*tau)/d, with x, y, d   *)
(* integers, d > 0 and tau = 1e-12, the tolerance of the depth walks.  Two *)
(* such numbers are compared as reals: since |y| stays far below 1e12,     *)
(* the comparison is lexicographic on (x, y) after cross-multiplying.      *)
(* Prices, investment sizes, fees and thresholds are standard (y = 0), so  *)
(* every product and quotient below has a standard operand and is exact.   *)
(* Floating-point rounding error is not modelled.                          *)
(***************************************************************************)
EXTENDS Integers, Sequences, FiniteSets, TLC

VARIABLES
    pc,               \* position of the operation under way
    order_book,       \* argument of the depth walks
    max_quote,        \* argument of compute_fillable_base_amount_from_asks
    remaining_quote,  \* its local
    base_acquired,    \* its local
    max_base,         \* argument of compute_fillable_quote_amount_from_bids
    remaining_base,   \* its local
    quote_received,   \* its local
    idx,              \* number of levels the for loop has gone through
    taken,            \* history: the quantity taken at each level gone through
    ret,              \* value returned by the walk
    order_books,      \* provider: what exchange.fetch_order_book(symbol) returns
    ob_raises,        \* provider: the (exchange, symbol) whose fetch_order_book raises
    call,             \* arguments of the evaluator call under way
    result,           \* (feasible, profit_pct) returned by the evaluator
    markets,          \* provider: the symbols exchange.load_markets() returns, in order
    load_raises,      \* provider: the exchanges whose load_markets raises
    tickers,          \* provider: what exchange.fetch_ticker(symbol) returns
    ticker_raises,    \* provider: the (exchange, symbol) whose fetch_ticker raises
    args,             \* arguments of the scan under way
    markets_by_ex,    \* scan_cross_exchanges: its local
    todo,             \* scan_cross_exchanges: symbols of `common` still to go through
    prices,           \* scan_triangular_for_all: its local
    currencies,       \* scan_triangular_for_all: its local
    pos,              \* loop counters of the scan
    last_eval,        \* history: the latest evaluator call of the scan and its result
    results           \* the scan's result list

fillVars == <<order_book, max_quote, remaining_quote, base_acquired, max_base,
              remaining_base, quote_received, idx, taken, ret>>

evalVars == <<order_books, ob_raises, call, result>>

worldVars == <<markets, load_raises, tickers, ticker_raises, args>>

scanVars == <<markets_by_ex, todo, prices, currencies, pos, last_eval, results>>

vars == <<pc, fillVars, evalVars, worldVars, scanVars>>

---------------------------------------------------------------------------
(* Exact arithmetic on (x + y*tau)/d.                                      *)

Abs(n) == IF n < 0 THEN -n ELSE n

RECURSIVE GCD(_, _)
GCD(a, b) == IF b = 0 THEN a ELSE GCD(b, a % b)

Norm(v) ==
    LET g == GCD(GCD(Abs(v.x), Abs(v.y)), v.d)
    IN  [x |-> v.x \div g, y |-> v.y \div g, d |-> v.d \div g]

Q(n, d) == Norm([x |-> n, y |-> 0, d |-> d])
N(n) == Q(n, 1)
Zero == N(0)

Add(a, b) == Norm([x |-> a.x * b.d + b.x * a.d, y |-> a.y * b.d + b.y * a.d, d |-> a.d * b.d])
Neg(a) == [x |-> -a.x, y |-> -a.y, d |-> a.d]
Sub(a, b) == Add(a, Neg(b))
\* one operand is standard, so the tau^2 term a.y * b.y is 0
Mul(a, b) == Norm([x |-> a.x * b.x, y |-> a.x * b.y + a.y * b.x, d |-> a.d * b.d])
\* b is standard and not 0
Div(a, b) ==
    IF b.x > 0 THEN Norm([x |-> a.x * b.d, y |-> a.y * b.d, d |-> a.d * b.x])
    ELSE Norm([x |-> -(a.x * b.d), y |-> -(a.y * b.d), d |-> a.d * (-b.x)])

Leq(a, b) ==
    LET X == a.x * b.d - b.x * a.d
        Y == a.y * b.d - b.y * a.d
    IN  X < 0 \/ (X = 0 /\ Y <= 0)
Lt(a, b) == ~Leq(b, a)
IsPos(a) == Lt(Zero, a)

\* the tolerance 1e-12 of the depth walks
Tol == [x |-> 0, y |-> 1, d |-> 1]

---------------------------------------------------------------------------
(* Order books.  A Python dict is a function from its keys; None is its    *)
(* own value.  A level [price, amount] is a pair.                          *)

None == [absent |-> TRUE]
EmptyDict == [k \in {} |-> Zero]

\* Python truthiness of a dict-or-None
Truthy(ob) == ob # None /\ DOMAIN ob # {}

---------------------------------------------------------------------------
(* compute_fillable_base_amount_from_asks                                  *)

\* AskLevel with the whole level taken where the budget does not cover it
AskLevel_NoPartialFill(level, remaining, acquired) ==
    LET price == level[1]
        amount == level[2]
        cost == Mul(price, amount)
    IN  IF Leq(price, Zero)
        THEN [remaining |-> remaining, acc |-> acquired, fill |-> Zero, brk |-> FALSE]
        ELSE IF Leq(cost, Add(remaining, Tol))
        THEN [remaining |-> Sub(remaining, cost), acc |-> Add(acquired, amount),
              fill |-> amount, brk |-> FALSE]
        ELSE [remaining |-> Zero, acc |-> Add(acquired, amount), fill |-> amount, brk |-> TRUE]

\* AskLevel with an invalid level ending the walk instead of being skipped
AskLevel_BreakOnInvalid(level, remaining, acquired) ==
    LET price == level[1]
        amount == level[2]
        cost == Mul(price, amount)
    IN  IF Leq(price, Zero)
        THEN [remaining |-> remaining, acc |-> acquired, fill |-> Zero, brk |-> TRUE]
        ELSE IF Leq(cost, Add(remaining, Tol))
        THEN [remaining |-> Sub(remaining, cost), acc |-> Add(acquired, amount),
              fill |-> amount, brk |-> FALSE]
        ELSE LET fill_amount == Div(remaining, price)
             IN  [remaining |-> Zero, acc |-> Add(acquired, fill_amount),
                  fill |-> fill_amount, brk |-> TRUE]

\* One iteration of the for loop over order_book['asks'].
AskLevel(level, remaining, acquired) ==
    LET price == level[1]
        amount == level[2]
        cost == Mul(price, amount)
    IN  IF Leq(price, Zero)
        THEN [remaining |-> remaining, acc |-> acquired, fill |-> Zero, brk |-> FALSE]
        ELSE IF Leq(cost, Add(remaining, Tol))
        THEN [remaining |-> Sub(remaining, cost), acc |-> Add(acquired, amount),
              fill |-> amount, brk |-> FALSE]
        ELSE LET fill_amount == Div(remaining, price)
             IN  [remaining |-> Zero, acc |-> Add(acquired, fill_amount),
                  fill |-> fill_amount, brk |-> TRUE]

RECURSIVE AskWalk(_, _, _, _)
AskWalk(asks, i, remaining, acquired) ==
    IF i > Len(asks) THEN acquired
    ELSE LET r == AskLevel(asks[i], remaining, acquired)
         IN  IF r.brk THEN r.acc ELSE AskWalk(asks, i + 1, r.remaining, r.acc)

compute_fillable_base_amount_from_asks(ob, mq) ==
    IF ~Truthy(ob) \/ "asks" \notin DOMAIN ob THEN Zero
    ELSE AskWalk(ob.asks, 1, mq, Zero)

---------------------------------------------------------------------------
(* compute_fillable_quote_amount_from_bids                                 *)

\* BidLevel with the whole level sold where the remaining base does not cover it
BidLevel_NoPartialFill(level, remaining, received) ==
    LET price == level[1]
        amount == level[2]
    IN  IF Leq(price, Zero)
        THEN [remaining |-> remaining, acc |-> received, fill |-> Zero, brk |-> FALSE]
        ELSE IF Leq(amount, Add(remaining, Tol))
        THEN [remaining |-> Sub(remaining, amount), acc |-> Add(received, Mul(price, amount)),
              fill |-> amount, brk |-> FALSE]
        ELSE [remaining |-> Zero, acc |-> Add(received, Mul(price, amount)),
              fill |-> amount, brk |-> TRUE]

\* One iteration of the for loop over order_book['bids'].
BidLevel(level, remaining, received) ==
    LET price == level[1]
        amount == level[2]
    IN  IF Leq(price, Zero)
        THEN [remaining |-> remaining, acc |-> received, fill |-> Zero, brk |-> FALSE]
        ELSE IF Leq(amount, Add(remaining, Tol))
        THEN [remaining |-> Sub(remaining, amount), acc |-> Add(received, Mul(price, amount)),
              fill |-> amount, brk |-> FALSE]
        ELSE LET fill_amount == remaining
             IN  [remaining |-> Zero, acc |-> Add(received, Mul(price, fill_amount)),
                  fill |-> fill_amount, brk |-> TRUE]

RECURSIVE BidWalk(_, _, _, _)
BidWalk(bids, i, remaining, received) ==
    IF i > Len(bids) THEN received
    ELSE LET r == BidLevel(bids[i], remaining, received)
         IN  IF r.brk THEN r.acc ELSE BidWalk(bids, i + 1, r.remaining, r.acc)

compute_fillable_quote_amount_from_bids(ob, mb) ==
    IF ~Truthy(ob) \/ "bids" \notin DOMAIN ob THEN Zero
    ELSE BidWalk(ob.bids, 1, mb, Zero)

---------------------------------------------------------------------------
(* Provider boundary and configuration.                                    *)

ESTIMATED_FEE_PCT == Q(1, 5)
MIN_PROFIT_PCT == Q(1, 4)
INVESTMENT_AMOUNT == N(1000)

\* lines 42-46: None when the fetch raises (an unknown symbol raises too)
safe_fetch_order_book(exchange, symbol) ==
    IF <<exchange, symbol>> \in ob_raises \/ symbol \notin DOMAIN order_books[exchange]
    THEN None
    ELSE order_books[exchange][symbol]

Infeasible == [feasible |-> FALSE, profit_pct |-> Zero]

\* lines 116-117, 167-168: (gross - 1.0) * 100.0 - ESTIMATED_FEE_PCT
NetProfitPct(gross) == Sub(Mul(Sub(gross, N(1)), N(100)), ESTIMATED_FEE_PCT)

---------------------------------------------------------------------------
(* check_cross_exchange_liquidity                                          *)

\* check_cross_exchange_liquidity with leg 2 sized by the intended investment
\* instead of the base that leg 1 bought
check_cross_SellsInvestment(buy_ex, sell_ex, symbol, investment_quote) ==
    LET ob_buy == safe_fetch_order_book(buy_ex, symbol)
        ob_sell == safe_fetch_order_book(sell_ex, symbol)
    IN  IF ~Truthy(ob_buy) \/ ~Truthy(ob_sell) THEN Infeasible
        ELSE LET base_bought == compute_fillable_base_amount_from_asks(ob_buy, investment_quote)
             IN  IF Leq(base_bought, Zero) THEN Infeasible
                 ELSE LET qr == compute_fillable_quote_amount_from_bids(ob_sell, investment_quote)
                      IN  IF Leq(qr, Zero) THEN Infeasible
                          ELSE LET profit_pct == NetProfitPct(Div(qr, investment_quote))
                               IN  [feasible |-> Leq(MIN_PROFIT_PCT, profit_pct),
                                    profit_pct |-> profit_pct]

\* check_cross_exchange_liquidity without the leg-2 guard of line 114
check_cross_NoLeg2Guard(buy_ex, sell_ex, symbol, investment_quote) ==
    LET ob_buy == safe_fetch_order_book(buy_ex, symbol)
        ob_sell == safe_fetch_order_book(sell_ex, symbol)
    IN  IF ~Truthy(ob_buy) \/ ~Truthy(ob_sell) THEN Infeasible
        ELSE LET base_bought == compute_fillable_base_amount_from_asks(ob_buy, investment_quote)
             IN  IF Leq(base_bought, Zero) THEN Infeasible
                 ELSE LET qr == compute_fillable_quote_amount_from_bids(ob_sell, base_bought)
                          profit_pct == NetProfitPct(Div(qr, investment_quote))
                      IN  [feasible |-> Leq(MIN_PROFIT_PCT, profit_pct),
                           profit_pct |-> profit_pct]

\* lines 99-118
check_cross_exchange_liquidity(buy_ex, sell_ex, symbol, investment_quote) ==
    LET ob_buy == safe_fetch_order_book(buy_ex, symbol)
        ob_sell == safe_fetch_order_book(sell_ex, symbol)
    IN  IF ~Truthy(ob_buy) \/ ~Truthy(ob_sell) THEN Infeasible
        ELSE LET base_bought == compute_fillable_base_amount_from_asks(ob_buy, investment_quote)
             IN  IF Leq(base_bought, Zero) THEN Infeasible
                 ELSE LET qr == compute_fillable_quote_amount_from_bids(ob_sell, base_bought)
                      IN  IF Leq(qr, Zero) THEN Infeasible
                          ELSE LET gross == Div(qr, investment_quote)
                                   profit_pct == NetProfitPct(gross)
                               IN  [feasible |-> Leq(MIN_PROFIT_PCT, profit_pct),
                                    profit_pct |-> profit_pct]

---------------------------------------------------------------------------
(* simulate_triangular_with_depth.  A symbol "BASE/QUOTE" is the sequence  *)
(* of its parts, <<BASE, QUOTE>>: s.split('/') is the sequence itself and  *)
(* f"{a}/{b}" is <<a, b>>.                                                 *)

\* lines 161-162: ob3.get(side)[0][0] if ob3.get(side) else None
TopPrice(ob, side) ==
    IF side \in DOMAIN ob /\ Len(ob[side]) > 0 THEN ob[side][1][1] ELSE None

\* Python truthiness of a number-or-None
TruthyNum(v) == v # None /\ ~(v.x = 0 /\ v.y = 0)

\* lines 157-171
TriLeg3(exchange, s3, quote_after_s2, investment_quote) ==
    LET ob3 == safe_fetch_order_book(exchange, s3)
    IN  IF ~Truthy(ob3) THEN Infeasible
        ELSE LET top_bid == TopPrice(ob3, "bids")
                 top_ask == TopPrice(ob3, "asks")
             IN  IF ~TruthyNum(top_bid) \/ ~TruthyNum(top_ask) THEN Infeasible
                 ELSE LET mid == Div(Add(top_bid, top_ask), N(2))
                          quote_back == Mul(quote_after_s2, mid)
                          gross == Div(quote_back, investment_quote)
                          profit_pct == NetProfitPct(gross)
                      IN  [feasible |-> Leq(MIN_PROFIT_PCT, profit_pct),
                           profit_pct |-> profit_pct]

\* simulate_triangular_with_depth with the inverse orientation of leg 2 priced
\* by selling into the bids all the same
simulate_triangular_InverseSold(exchange, route, investment_quote) ==
    LET s1 == route[1]
        s2 == route[2]
        s3 == route[3]
        ob1 == safe_fetch_order_book(exchange, s1)
    IN  IF ~Truthy(ob1) THEN Infeasible
        ELSE LET base1 == s1[1]
                 base1_acquired == compute_fillable_base_amount_from_asks(ob1, investment_quote)
             IN  IF Leq(base1_acquired, Zero) THEN Infeasible
                 ELSE LET ob2 == safe_fetch_order_book(exchange, s2)
                      IN  IF ~Truthy(ob2) THEN Infeasible
                          ELSE LET quote2 == s2[2]
                                   quote_after_s2 ==
                                       IF s2[1] = base1 \/ s2[2] = base1
                                       THEN compute_fillable_quote_amount_from_bids(ob2, base1_acquired)
                                       ELSE None
                               IN  IF quote_after_s2 = None \/ Leq(quote_after_s2, Zero)
                                   THEN Infeasible
                                   ELSE TriLeg3(exchange, s3, quote_after_s2, investment_quote)

\* lines 120-171
simulate_triangular_with_depth(exchange, route, investment_quote) ==
    LET s1 == route[1]
        s2 == route[2]
        s3 == route[3]
        ob1 == safe_fetch_order_book(exchange, s1)
    IN  IF ~Truthy(ob1) THEN Infeasible
        ELSE LET base1 == s1[1]
                 base1_acquired == compute_fillable_base_amount_from_asks(ob1, investment_quote)
             IN  IF Leq(base1_acquired, Zero) THEN Infeasible
                 ELSE LET ob2 == safe_fetch_order_book(exchange, s2)
                      IN  IF ~Truthy(ob2) THEN Infeasible
                          ELSE LET quote2 == s2[2]
                                   quote_after_s2 ==
                                       IF s2 = <<base1, quote2>>
                                       THEN compute_fillable_quote_amount_from_bids(ob2, base1_acquired)
                                       ELSE IF s2 = <<quote2, base1>> THEN None
                                       ELSE None
                               IN  IF quote_after_s2 = None \/ Leq(quote_after_s2, Zero)
                                   THEN Infeasible
                                   ELSE TriLeg3(exchange, s3, quote_after_s2, investment_quote)

\* the parts of the model that a specification leaves unused
EvalIdle ==
    /\ order_books = <<>>
    /\ ob_raises = {}
    /\ call = <<>>
    /\ result = Infeasible

ScanIdle ==
    /\ markets = <<>>
    /\ load_raises = {}
    /\ tickers = <<>>
    /\ ticker_raises = {}
    /\ args = <<>>
    /\ markets_by_ex = <<>>
    /\ todo = {}
    /\ prices = <<>>
    /\ currencies = <<>>
    /\ pos = <<>>
    /\ last_eval = <<>>
    /\ results = <<>>

FillIdle ==
    /\ order_book = None
    /\ max_quote = Zero
    /\ remaining_quote = Zero
    /\ base_acquired = Zero
    /\ max_base = Zero
    /\ remaining_base = Zero
    /\ quote_received = Zero
    /\ idx = 0
    /\ taken = <<>>
    /\ ret = Zero

---------------------------------------------------------------------------
(* The depth walks, one loop iteration per step.                           *)

MaxLevels == 2

FillPrices == {N(-1), N(0), N(1), N(2)}
FillAmounts == {N(0), N(1), Add(N(1), Tol), N(2)}
FillBounds == {N(0), N(1), N(2), N(3)}
Levels == FillPrices \X FillAmounts

LevelSeqs == UNION {[1..n -> Levels] : n \in 0..MaxLevels}

\* what a provider can hand to the asks walk, and to the bids walk
AskBooks == {None, EmptyDict, [bids |-> <<>>]} \cup {[asks |-> s] : s \in LevelSeqs}
BidBooks == {None, EmptyDict, [asks |-> <<>>]} \cup {[bids |-> s] : s \in LevelSeqs}

InitFill ==
    /\ pc \in {"asks_entry", "bids_entry"}
    /\ order_book \in (IF pc = "asks_entry" THEN AskBooks ELSE BidBooks)
    /\ max_quote \in (IF pc = "asks_entry" THEN FillBounds ELSE {Zero})
    /\ max_base \in (IF pc = "bids_entry" THEN FillBounds ELSE {Zero})
    /\ remaining_quote = Zero
    /\ base_acquired = Zero
    /\ remaining_base = Zero
    /\ quote_received = Zero
    /\ idx = 0
    /\ taken = <<>>
    /\ ret = Zero
    /\ EvalIdle
    /\ ScanIdle

\* lines 54-57
AsksEnter ==
    /\ pc = "asks_entry"
    /\ IF ~Truthy(order_book) \/ "asks" \notin DOMAIN order_book
       THEN /\ ret' = Zero
            /\ pc' = "asks_done"
            /\ UNCHANGED <<remaining_quote, base_acquired>>
       ELSE /\ remaining_quote' = max_quote
            /\ base_acquired' = Zero
            /\ pc' = "asks_loop"
            /\ UNCHANGED ret
    /\ UNCHANGED <<order_book, max_quote, max_base, remaining_base, quote_received, idx, taken>>
    /\ UNCHANGED <<evalVars, worldVars, scanVars>>

\* lines 58-71: the body of the for loop, for the next level
AsksIterate ==
    /\ pc = "asks_loop"
    /\ idx < Len(order_book.asks)
    /\ LET r == AskLevel(order_book.asks[idx + 1], remaining_quote, base_acquired)
       IN  /\ remaining_quote' = r.remaining
           /\ base_acquired' = r.acc
           /\ taken' = Append(taken, r.fill)
           /\ pc' = IF r.brk THEN "asks_return" ELSE "asks_loop"
    /\ idx' = idx + 1
    /\ UNCHANGED <<order_book, max_quote, max_base, remaining_base, quote_received, ret>>
    /\ UNCHANGED <<evalVars, worldVars, scanVars>>

\* line 72, after the break or the end of the list
AsksReturn ==
    /\ \/ pc = "asks_return"
       \/ pc = "asks_loop" /\ idx = Len(order_book.asks)
    /\ ret' = base_acquired
    /\ pc' = "asks_done"
    /\ UNCHANGED <<order_book, max_quote, remaining_quote, base_acquired, max_base,
                   remaining_base, quote_received, idx, taken>>
    /\ UNCHANGED <<evalVars, worldVars, scanVars>>

\* lines 80-83
BidsEnter ==
    /\ pc = "bids_entry"
    /\ IF ~Truthy(order_book) \/ "bids" \notin DOMAIN order_book
       THEN /\ ret' = Zero
            /\ pc' = "bids_done"
            /\ UNCHANGED <<remaining_base, quote_received>>
       ELSE /\ remaining_base' = max_base
            /\ quote_received' = Zero
            /\ pc' = "bids_loop"
            /\ UNCHANGED ret
    /\ UNCHANGED <<order_book, max_quote, max_base, remaining_quote, base_acquired, idx, taken>>
    /\ UNCHANGED <<evalVars, worldVars, scanVars>>

\* lines 84-96
BidsIterate ==
    /\ pc = "bids_loop"
    /\ idx < Len(order_book.bids)
    /\ LET r == BidLevel(order_book.bids[idx + 1], remaining_base, quote_received)
       IN  /\ remaining_base' = r.remaining
           /\ quote_received' = r.acc
           /\ taken' = Append(taken, r.fill)
           /\ pc' = IF r.brk THEN "bids_return" ELSE "bids_loop"
    /\ idx' = idx + 1
    /\ UNCHANGED <<order_book, max_quote, max_base, remaining_quote, base_acquired, ret>>
    /\ UNCHANGED <<evalVars, worldVars, scanVars>>

\* line 97
BidsReturn ==
    /\ \/ pc = "bids_return"
       \/ pc = "bids_loop" /\ idx = Len(order_book.bids)
    /\ ret' = quote_received
    /\ pc' = "bids_done"
    /\ UNCHANGED <<order_book, max_quote, remaining_quote, base_acquired, max_base,
                   remaining_base, quote_received, idx, taken>>
    /\ UNCHANGED <<evalVars, worldVars, scanVars>>

NextFill ==
    \/ AsksEnter
    \/ AsksIterate
    \/ AsksReturn
    \/ BidsEnter
    \/ BidsIterate
    \/ BidsReturn

SpecFill == InitFill /\ [][NextFill]_vars

---------------------------------------------------------------------------
(* Properties of the depth walks (SpecFill).                               *)

Price(level) == level[1]
Amount(level) == level[2]

NonNegLevels(levels) ==
    \A i \in 1..Len(levels) : Leq(Zero, Price(levels[i])) /\ Leq(Zero, Amount(levels[i]))

\* sum of price * quantity taken over the levels gone through
RECURSIVE ValueTaken(_, _, _)
ValueTaken(levels, tk, i) ==
    IF i > Len(tk) THEN Zero
    ELSE Add(Mul(Price(levels[i]), tk[i]), ValueTaken(levels, tk, i + 1))

\* sum of the quantities taken over the levels gone through
RECURSIVE QtyTaken(_, _)
QtyTaken(tk, i) == IF i > Len(tk) THEN Zero ELSE Add(tk[i], QtyTaken(tk, i + 1))

\* total depth of a side: its positive-price levels
RECURSIVE DepthQty(_, _)
DepthQty(levels, i) ==
    IF i > Len(levels) THEN Zero
    ELSE Add(IF IsPos(Price(levels[i])) THEN Amount(levels[i]) ELSE Zero, DepthQty(levels, i + 1))

RECURSIVE DepthValue(_, _)
DepthValue(levels, i) ==
    IF i > Len(levels) THEN Zero
    ELSE Add(IF IsPos(Price(levels[i])) THEN Mul(Price(levels[i]), Amount(levels[i])) ELSE Zero,
             DepthValue(levels, i + 1))

InAsksWalk == pc \in {"asks_loop", "asks_return", "asks_done"} /\ Truthy(order_book)
              /\ "asks" \in DOMAIN order_book
InBidsWalk == pc \in {"bids_loop", "bids_return", "bids_done"} /\ Truthy(order_book)
              /\ "bids" \in DOMAIN order_book

\* C2, as stated: on a book of non-negative ask levels the quote spent so far
\* (sum of price * quantity taken) never exceeds max_quote and the remaining
\* budget never goes below 0, at any step of the walk.
C2_NeverOverspends ==
    (InAsksWalk /\ NonNegLevels(order_book.asks)) =>
        /\ Leq(ValueTaken(order_book.asks, taken, 1), max_quote)
        /\ Leq(Zero, remaining_quote)

\* C2, amended: the quote spent so far never exceeds max_quote by more than the
\* 1e-12 tolerance of the level comparison, the remaining budget never goes below
\* -1e-12, and the base returned is the sum of the quantities taken.
C2_OverspendsAtMostTol ==
    (InAsksWalk /\ NonNegLevels(order_book.asks)) =>
        /\ Leq(ValueTaken(order_book.asks, taken, 1), Add(max_quote, Tol))
        /\ Leq(Neg(Tol), remaining_quote)
        /\ pc = "asks_done" => ret = QtyTaken(taken, 1)

\* a whole level taken on the tolerance, then a fractional fill: the walk has
\* returned having spent more than max_quote at some level
C2_Witness ==
    /\ pc = "asks_done"
    /\ InAsksWalk
    /\ NonNegLevels(order_book.asks)
    /\ Len(taken) = 2
    /\ Lt(max_quote, Mul(Price(order_book.asks[1]), taken[1]))
    /\ Lt(taken[2], Amount(order_book.asks[2]))

\* C3, as stated: on a book of non-negative bid levels the base sold so far never
\* exceeds max_base, the remaining base never goes below 0, and the quote
\* returned is the sum of price * quantity taken.
C3_NeverOversells ==
    (InBidsWalk /\ NonNegLevels(order_book.bids)) =>
        /\ Leq(QtyTaken(taken, 1), max_base)
        /\ Leq(Zero, remaining_base)
        /\ quote_received = ValueTaken(order_book.bids, taken, 1)
        /\ pc = "bids_done" => ret = ValueTaken(order_book.bids, taken, 1)

\* C3, amended: the base sold so far never exceeds max_base by more than the
\* 1e-12 tolerance, the remaining base never goes below -1e-12, and the quote
\* returned is the sum of price * quantity taken over the levels gone through.
C3_OversellsAtMostTol ==
    (InBidsWalk /\ NonNegLevels(order_book.bids)) =>
        /\ Leq(QtyTaken(taken, 1), Add(max_base, Tol))
        /\ Leq(Neg(Tol), remaining_base)
        /\ quote_received = ValueTaken(order_book.bids, taken, 1)
        /\ pc = "bids_done" => ret = ValueTaken(order_book.bids, taken, 1)

\* a whole level sold, then a partial one, with a positive return
C3_Witness ==
    /\ pc = "bids_done"
    /\ InBidsWalk
    /\ NonNegLevels(order_book.bids)
    /\ Len(taken) = 2
    /\ taken[1] = Amount(order_book.bids[1])
    /\ IsPos(taken[2])
    /\ Lt(taken[2], Amount(order_book.bids[2]))
    /\ IsPos(ret)

\* C8: when the bound covers the whole depth of the side, the walk goes through
\* every level, takes every positive-price level whole and returns the depth:
\* the summed quantity for asks (the budget left being max_quote minus the
\* depth's cost), the summed price * quantity for bids.
C8_FullDepth ==
    /\ (pc = "asks_done" /\ InAsksWalk /\ NonNegLevels(order_book.asks)
          /\ Leq(DepthValue(order_book.asks, 1), max_quote)) =>
            /\ Len(taken) = Len(order_book.asks)
            /\ \A i \in 1..Len(taken) :
                 IsPos(Price(order_book.asks[i])) => taken[i] = Amount(order_book.asks[i])
            /\ ret = DepthQty(order_book.asks, 1)
            /\ remaining_quote = Sub(max_quote, DepthValue(order_book.asks, 1))
    /\ (pc = "bids_done" /\ InBidsWalk /\ NonNegLevels(order_book.bids)
          /\ Leq(DepthQty(order_book.bids, 1), max_base)) =>
            /\ Len(taken) = Len(order_book.bids)
            /\ \A i \in 1..Len(taken) :
                 IsPos(Price(order_book.bids[i])) => taken[i] = Amount(order_book.bids[i])
            /\ ret = DepthValue(order_book.bids, 1)
            /\ remaining_base = Sub(max_base, DepthQty(order_book.bids, 1))

\* an invalid level followed by a positive-price one, the budget partly unspent
C8_Witness ==
    /\ pc = "asks_done"
    /\ InAsksWalk
    /\ NonNegLevels(order_book.asks)
    /\ Len(order_book.asks) = 2
    /\ ~IsPos(Price(order_book.asks[1]))
    /\ IsPos(Price(order_book.asks[2]))
    /\ IsPos(Amount(order_book.asks[2]))
    /\ Lt(DepthValue(order_book.asks, 1), max_quote)
    /\ IsPos(remaining_quote)
    /\ ret = DepthQty(order_book.asks, 1)

\* the stepwise walks return what the evaluators' calls return
WalkAgrees ==
    /\ pc = "asks_done" => ret = compute_fillable_base_amount_from_asks(order_book, max_quote)
    /\ pc = "bids_done" => ret = compute_fillable_quote_amount_from_bids(order_book, max_base)

---------------------------------------------------------------------------
(* check_cross_exchange_liquidity applied to two exchanges (SpecCross).    *)

L(p, a) == <<p, a>>

BookLow == [asks |-> <<L(N(100), N(10))>>, bids |-> <<L(N(99), N(10))>>]
BookHigh == [asks |-> <<L(N(103), N(10))>>, bids |-> <<L(N(102), N(5)), L(N(101), N(10))>>]
BookEdge == [asks |-> <<L(N(100), N(4)), L(Q(201, 2), N(10))>>, bids |-> <<L(Q(2009, 20), N(10))>>]
BookThin == [asks |-> <<L(N(100), N(2)), L(N(101), N(3))>>,
             bids |-> <<L(N(99), N(1)), L(N(98), N(5))>>]
BookBadPrices == [asks |-> <<L(N(0), N(5)), L(N(-1), N(5))>>, bids |-> <<L(N(0), N(5))>>]
BookNoAsks == [bids |-> <<L(N(102), N(10))>>]
BookNoBids == [asks |-> <<L(N(100), N(10))>>]
BookEmptySides == [asks |-> <<>>, bids |-> <<>>]

CrossBooks == {None, EmptyDict, BookLow, BookHigh, BookEdge, BookThin, BookBadPrices,
               BookNoAsks, BookNoBids, BookEmptySides}
CrossExchanges == {"a", "b"}
XY == <<"X", "Y">>
Investments == {N(1000), N(500)}

InitCross ==
    /\ pc = "cross_call"
    /\ order_books \in [CrossExchanges -> [{XY} -> CrossBooks]]
    /\ ob_raises \in SUBSET (CrossExchanges \X {XY})
    /\ call = <<>>
    /\ result = Infeasible
    /\ FillIdle
    /\ ScanIdle

CrossCall ==
    /\ pc = "cross_call"
    /\ \E buy_ex \in CrossExchanges, sell_ex \in CrossExchanges, inv \in Investments :
         /\ buy_ex # sell_ex
         /\ call' = [buy_ex |-> buy_ex, sell_ex |-> sell_ex, symbol |-> XY,
                     investment_quote |-> inv]
         /\ result' = check_cross_exchange_liquidity(buy_ex, sell_ex, XY, inv)
    /\ pc' = "cross_done"
    /\ UNCHANGED <<order_books, ob_raises, fillVars, worldVars, scanVars>>

SpecCross == InitCross /\ [][CrossCall]_vars

\* the two legs of the call under way, recomputed from the books it fetched
CallObBuy == safe_fetch_order_book(call.buy_ex, call.symbol)
CallObSell == safe_fetch_order_book(call.sell_ex, call.symbol)
CallBaseBought == compute_fillable_base_amount_from_asks(CallObBuy, call.investment_quote)
CallQuoteReceived == compute_fillable_quote_amount_from_bids(CallObSell, CallBaseBought)

\* C1: the cross-exchange evaluation is feasible only if leg 1 (asks of the buy
\* book, investment_quote) gave base_bought > 0 and leg 2 (bids of the sell book,
\* exactly base_bought) gave quote_received > 0; when both are positive,
\* profit_percent = (quote_received / investment_quote - 1) * 100 - fee_pct and
\* feasible holds iff profit_percent >= min_profit_pct (the module's
\* ESTIMATED_FEE_PCT and MIN_PROFIT_PCT).
C1_CrossEvaluate ==
    pc = "cross_done" =>
        /\ result.feasible => IsPos(CallBaseBought) /\ IsPos(CallQuoteReceived)
        /\ (IsPos(CallBaseBought) /\ IsPos(CallQuoteReceived)) =>
             /\ result.profit_pct =
                  Sub(Mul(Sub(Div(CallQuoteReceived, call.investment_quote), N(1)), N(100)),
                      ESTIMATED_FEE_PCT)
             /\ result.feasible <=> Leq(MIN_PROFIT_PCT, result.profit_pct)

\* a feasible round trip whose leg 2 walks two bid levels with the base of leg 1
C1_Witness ==
    /\ pc = "cross_done"
    /\ result.feasible
    /\ CallObSell = BookHigh
    /\ CallBaseBought = N(10)
    /\ CallQuoteReceived = N(1015)
    /\ result.profit_pct = Q(13, 10)

NoAskLiquidity(ob) ==
    \/ ~Truthy(ob)
    \/ "asks" \notin DOMAIN ob
    \/ \A i \in 1..Len(ob.asks) : Leq(ob.asks[i][1], Zero)

NoBidLiquidity(ob) ==
    \/ ~Truthy(ob)
    \/ "bids" \notin DOMAIN ob
    \/ \A i \in 1..Len(ob.bids) : Leq(ob.bids[i][1], Zero)

\* C9: both fills return 0 on a book that is absent, empty, without the side,
\* with the side empty or with only non-positive prices on it; and whenever a
\* leg's fill is 0 the cross-exchange evaluator returns (False, 0.0).
C9_NoLiquidity ==
    /\ \A ex \in DOMAIN order_books : \A bound \in Investments \cup {N(10)} :
         LET ob == safe_fetch_order_book(ex, XY)
         IN  /\ NoAskLiquidity(ob) => compute_fillable_base_amount_from_asks(ob, bound) = Zero
             /\ NoBidLiquidity(ob) => compute_fillable_quote_amount_from_bids(ob, bound) = Zero
    /\ pc = "cross_done" =>
         ((CallBaseBought = Zero \/ CallQuoteReceived = Zero) => result = Infeasible)

\* leg 1 buys, the sell book has bids only at non-positive prices: infeasible
C9_Witness ==
    /\ pc = "cross_done"
    /\ IsPos(CallBaseBought)
    /\ CallObSell = BookBadPrices
    /\ CallQuoteReceived = Zero
    /\ result = Infeasible

---------------------------------------------------------------------------
(* simulate_triangular_with_depth applied to a route (SpecTri).            *)

Currencies == {"A", "B", "C"}
AllSymbols == {s \in Currencies \X Currencies : s[1] # s[2]}

TriBook2 == [asks |-> <<L(N(2), N(1000))>>, bids |-> <<L(N(2), N(1000))>>]
TriBook4 == [asks |-> <<L(N(4), N(1000))>>, bids |-> <<L(N(4), N(300)), L(N(3), N(1000))>>]
TriBookHalf == [asks |-> <<L(Q(31, 50), N(5000))>>, bids |-> <<L(Q(3, 5), N(5000))>>]
TriBookNoBid == [asks |-> <<L(N(2), N(1000))>>, bids |-> <<>>]
TriBookZeroBid == [asks |-> <<L(N(2), N(1000))>>, bids |-> <<L(N(0), N(5))>>]
TriBooks == {None, TriBook2, TriBook4, TriBookHalf, TriBookNoBid, TriBookZeroBid}

\* routes out of A/B: legs 2 and 3 over any listed symbols
TriRoutes == {<<<<"A", "B">>, s2, s3>> : s2 \in AllSymbols, s3 \in AllSymbols}
RouteSymbols(route) == {route[1], route[2], route[3]}

InitTri ==
    /\ pc = "tri_call"
    /\ \E route \in TriRoutes :
         /\ call = [exchange |-> "x", route |-> route, investment_quote |-> INVESTMENT_AMOUNT]
         /\ order_books \in [{"x"} -> [RouteSymbols(route) -> TriBooks]]
         /\ ob_raises \in {{}, {<<"x", route[3]>>}}
    /\ result = Infeasible
    /\ FillIdle
    /\ ScanIdle

TriCall ==
    /\ pc = "tri_call"
    /\ result' = simulate_triangular_with_depth(call.exchange, call.route, call.investment_quote)
    /\ pc' = "tri_done"
    /\ UNCHANGED <<order_books, ob_raises, call, fillVars, worldVars, scanVars>>

SpecTri == InitTri /\ [][TriCall]_vars

\* the orientation of leg 2 that the evaluator sells into: BASE1/quote2
SellableLeg2(route) == route[2] = <<route[1][1], route[2][2]>>

\* C5: a route whose leg-2 symbol is not in the orientation the evaluator can sell
\* into is reported (False, 0.0), whatever leg 1 fills and leg 3 quotes.
C5_UnsupportedOrientation ==
    pc = "tri_done" => (~SellableLeg2(call.route) => result = Infeasible)

\* leg 2 listed as X/BASE1 (the inverse orientation), with a leg-1 fill, bids
\* on leg 2 and a leg-3 mid price that would make the route profitable
C5_Witness ==
    /\ pc = "tri_done"
    /\ call.route = <<<<"A", "B">>, <<"C", "A">>, <<"C", "B">>>>
    /\ ob_raises = {}
    /\ order_books["x"][<<"A", "B">>] = TriBook2
    /\ order_books["x"][<<"C", "A">>] = TriBook4
    /\ order_books["x"][<<"C", "B">>] = TriBookHalf
    /\ result = Infeasible

---------------------------------------------------------------------------
(* The scanners: scan_cross_exchanges and scan_triangular_for_all.         *)

MAX_MARKETS_PER_EXCHANGE == 500

Min(a, b) == IF a < b THEN a ELSE b
Range(f) == {f[i] : i \in DOMAIN f}
Perms(S) == {f \in [1..Cardinality(S) -> S] : \A i, j \in DOMAIN f : f[i] = f[j] => i = j}

\* round(v, 6): the nearest multiple of 1e-6, a tie going to the even one (a tau
\* part of v only decides a tie)
Round6(v) ==
    LET s == v.x * 1000000
        q == s \div v.d
        r == s - q * v.d
        up == \/ 2 * r > v.d
              \/ 2 * r = v.d /\ (v.y > 0 \/ (v.y = 0 /\ q % 2 = 1))
    IN  Q(IF up THEN q + 1 ELSE q, 1000000)

\* lines 27-34: the first `limit` listed symbols, none when load_markets raises
safe_load_markets(exchange, limit) ==
    IF exchange \in load_raises THEN <<>>
    ELSE SubSeq(markets[exchange], 1, Min(limit, Len(markets[exchange])))

\* lines 36-40
safe_fetch_ticker(exchange, symbol) ==
    IF <<exchange, symbol>> \in ticker_raises \/ symbol \notin DOMAIN tickers[exchange]
    THEN None
    ELSE tickers[exchange][symbol]

\* the (i, j) of lines 187-188, in the order of the loops
PairAt(n, t) == <<((t - 1) \div n) + 1, ((t - 1) % n) + 1>>
IsPair(n, t) == PairAt(n, t)[1] < PairAt(n, t)[2]
Pairs(n) ==
    LET RECURSIVE Pick(_)
        Pick(t) == IF t > n * n THEN <<>>
                   ELSE (IF IsPair(n, t) THEN <<PairAt(n, t)>> ELSE <<>>) \o Pick(t + 1)
    IN  Pick(1)

\* the (i, j, k) of lines 239-243 that get past the `continue`, in loop order
TripleAt(n, t) == <<((t - 1) \div (n * n)) + 1, (((t - 1) \div n) % n) + 1, ((t - 1) % n) + 1>>
IsDistinct(tr) == tr[1] # tr[2] /\ tr[2] # tr[3] /\ tr[1] # tr[3]
DistinctTriples(n) ==
    LET RECURSIVE Pick(_)
        Pick(t) == IF t > n * n * n THEN <<>>
                   ELSE (IF IsDistinct(TripleAt(n, t)) THEN <<TripleAt(n, t)>> ELSE <<>>)
                        \o Pick(t + 1)
    IN  Pick(1)

\* lines 194-199, 203-208
CrossRecord(sym, buy, sell, profit_pct) ==
    [pair |-> sym, buy_exchange |-> buy, sell_exchange |-> sell,
     profit_percent |-> Round6(profit_pct)]

\* lines 250-254
TriRecord(name, A, B, C, profit_pct) ==
    [exchange |-> name, route |-> <<A, B, C, A>>, profit_percent |-> Round6(profit_pct)]

\* the records of one direction without the `feasible` test of lines 193, 202
CrossAppend_NoFeasibleTest(sym, buy, sell, r) ==
    IF Leq(args.min_profit_pct, r.profit_pct)
    THEN <<CrossRecord(sym, buy, sell, r.profit_pct)>>
    ELSE <<>>

\* lines 193-199, 202-208: what one evaluated direction appends
CrossAppend(sym, buy, sell, r) ==
    IF r.feasible /\ Leq(args.min_profit_pct, r.profit_pct)
    THEN <<CrossRecord(sym, buy, sell, r.profit_pct)>>
    ELSE <<>>

\* lines 181-186
ScanCrossLoad ==
    /\ pc = "scan_cross_start"
    /\ results' = <<>>
    /\ markets_by_ex' = [n \in Range(args.names) |-> safe_load_markets(n, args.max_markets)]
    /\ pos' = [p |-> 1]
    /\ pc' = "scan_cross_pair"
    /\ UNCHANGED <<fillVars, evalVars, worldVars, todo, prices, currencies, last_eval>>

\* lines 187-191: the next pair (a, b) and its common symbols
ScanCrossPair ==
    /\ pc = "scan_cross_pair"
    /\ pos.p <= Len(Pairs(Len(args.names)))
    /\ LET ij == Pairs(Len(args.names))[pos.p]
           a == args.names[ij[1]]
           b == args.names[ij[2]]
       IN  todo' = Range(markets_by_ex[a]) \cap Range(markets_by_ex[b])
    /\ pc' = "scan_cross_syms"
    /\ UNCHANGED <<fillVars, evalVars, worldVars, markets_by_ex, prices, currencies, pos,
                   last_eval, results>>

\* ScanCrossSymbol leaving the pair's other symbols aside once an order-book
\* fetch of the symbol has failed
ScanCrossSymbol_AbandonsPair ==
    /\ pc = "scan_cross_syms"
    /\ \E sym \in todo :
         LET ij == Pairs(Len(args.names))[pos.p]
             a == args.names[ij[1]]
             b == args.names[ij[2]]
             r1 == check_cross_exchange_liquidity(a, b, sym, args.investment)
             r2 == check_cross_exchange_liquidity(b, a, sym, args.investment)
         IN  /\ results' = results \o CrossAppend(sym, a, b, r1) \o CrossAppend(sym, b, a, r2)
             /\ last_eval' = [a |-> a, b |-> b, sym |-> sym, forward |-> r1, reverse |-> r2]
             /\ todo' = IF <<a, sym>> \in ob_raises \/ <<b, sym>> \in ob_raises
                        THEN {} ELSE todo \ {sym}
    /\ UNCHANGED <<pc, fillVars, evalVars, worldVars, markets_by_ex, prices, currencies, pos>>

\* lines 191-208: one symbol of `common` (a set: any order), both directions
ScanCrossSymbol ==
    /\ pc = "scan_cross_syms"
    /\ \E sym \in todo :
         LET ij == Pairs(Len(args.names))[pos.p]
             a == args.names[ij[1]]
             b == args.names[ij[2]]
             r1 == check_cross_exchange_liquidity(a, b, sym, args.investment)
             r2 == check_cross_exchange_liquidity(b, a, sym, args.investment)
         IN  /\ results' = results \o CrossAppend(sym, a, b, r1) \o CrossAppend(sym, b, a, r2)
             /\ last_eval' = [a |-> a, b |-> b, sym |-> sym, forward |-> r1, reverse |-> r2]
             /\ todo' = todo \ {sym}
    /\ UNCHANGED <<pc, fillVars, evalVars, worldVars, markets_by_ex, prices, currencies, pos>>

\* line 191: `common` is exhausted
ScanCrossPairDone ==
    /\ pc = "scan_cross_syms"
    /\ todo = {}
    /\ pos' = [p |-> pos.p + 1]
    /\ pc' = "scan_cross_pair"
    /\ UNCHANGED <<fillVars, evalVars, worldVars, markets_by_ex, todo, prices, currencies,
                   last_eval, results>>

\* line 209
ScanCrossReturn ==
    /\ pc = "scan_cross_pair"
    /\ pos.p > Len(Pairs(Len(args.names)))
    /\ pc' = "scan_done"
    /\ UNCHANGED <<fillVars, evalVars, worldVars, scanVars>>

\* Python's `a or b` on numbers-or-None
PyOr(a, b) == IF TruthyNum(a) THEN a ELSE b
Get(t, k) == IF k \in DOMAIN t THEN t[k] ELSE None

\* lines 226-228
PriceEntry(t) ==
    LET bid == PyOr(PyOr(Get(t, "bid"), Get(t, "last")), Zero)
        ask == PyOr(PyOr(PyOr(Get(t, "ask"), Get(t, "last")), bid), Zero)
    IN  [bid |-> bid, ask |-> ask,
         mid |-> IF TruthyNum(bid) /\ TruthyNum(ask) THEN Div(Add(bid, ask), N(2))
                 ELSE PyOr(Get(t, "last"), Zero)]

\* lines 219-228: a symbol is a sequence of parts, '/' in s is Len(s) >= 2
HasSlash(s) == Len(s) >= 2
PriceMap(name, listed, limit) ==
    LET symbols == SelectSeq(listed, HasSlash)
        first == SubSeq(symbols, 1, Min(limit, Len(symbols)))
        kept == {s \in Range(first) : Truthy(safe_fetch_ticker(name, s))}
    IN  [s \in kept |-> PriceEntry(safe_fetch_ticker(name, s))]

\* lines 230-236: a, b = s.split('/') raises unless s has exactly two parts
CurrencySet(pm) == UNION {{s[1], s[2]} : s \in {u \in DOMAIN pm : Len(u) = 2}}

\* line 217, for the first exchange or the next one
ScanTriStart ==
    /\ pc = "scan_tri_start"
    /\ results' = <<>>
    /\ pos' = [e |-> 1, t |-> 1]
    /\ pc' = "scan_tri_exchange"
    /\ UNCHANGED <<fillVars, evalVars, worldVars, markets_by_ex, todo, prices, currencies,
                   last_eval>>

\* lines 218-237: markets, prices and the currency list (a set listed: any order)
ScanTriPrepare ==
    /\ pc = "scan_tri_exchange"
    /\ pos.e <= Len(args.names)
    /\ LET name == args.names[pos.e]
           listed == safe_load_markets(name, args.max_markets)
           pm == PriceMap(name, listed, args.max_markets)
       IN  /\ prices' = pm
           /\ currencies' \in Perms(CurrencySet(pm))
    /\ pos' = [pos EXCEPT !.t = 1]
    /\ pc' = "scan_tri_loop"
    /\ UNCHANGED <<fillVars, evalVars, worldVars, markets_by_ex, todo, last_eval, results>>

\* lines 244-254: one (i, j, k) with distinct indices
ScanTriIterate ==
    /\ pc = "scan_tri_loop"
    /\ pos.t <= Len(DistinctTriples(Len(currencies)))
    /\ LET tr == DistinctTriples(Len(currencies))[pos.t]
           name == args.names[pos.e]
           A == currencies[tr[1]]
           B == currencies[tr[2]]
           C == currencies[tr[3]]
           s1 == <<A, B>>
           s2 == <<B, C>>
           s3 == <<C, A>>
       IN  IF s1 \in DOMAIN prices /\ s2 \in DOMAIN prices /\ s3 \in DOMAIN prices
           THEN LET r == simulate_triangular_with_depth(name, <<s1, s2, s3>>, INVESTMENT_AMOUNT)
                IN  /\ last_eval' = [exchange |-> name, route |-> <<s1, s2, s3>>, result |-> r]
                    /\ results' = IF r.feasible /\ Leq(args.min_profit_pct, r.profit_pct)
                                  THEN Append(results, TriRecord(name, A, B, C, r.profit_pct))
                                  ELSE results
           ELSE UNCHANGED <<last_eval, results>>
    /\ pos' = [pos EXCEPT !.t = pos.t + 1]
    /\ UNCHANGED <<pc, fillVars, evalVars, worldVars, markets_by_ex, todo, prices, currencies>>

\* lines 239-241 exhausted: on to the next exchange
ScanTriExchangeDone ==
    /\ pc = "scan_tri_loop"
    /\ pos.t > Len(DistinctTriples(Len(currencies)))
    /\ pos' = [pos EXCEPT !.e = pos.e + 1]
    /\ pc' = "scan_tri_exchange"
    /\ UNCHANGED <<fillVars, evalVars, worldVars, markets_by_ex, todo, prices, currencies,
                   last_eval, results>>

\* line 255
ScanTriReturn ==
    /\ pc = "scan_tri_exchange"
    /\ pos.e > Len(args.names)
    /\ pc' = "scan_done"
    /\ UNCHANGED <<fillVars, evalVars, worldVars, scanVars>>

---------------------------------------------------------------------------
(* The provider's worlds and the scans' arguments (SpecScan).              *)

XZ == <<"X", "Z">>
CrossNames == <<"a", "b", "c">>
ScanBooks == {None, BookLow, BookHigh}
BookXZ == [a |-> BookLow, b |-> BookEdge, c |-> BookHigh]

CrossMarkets ==
    {[a |-> ma, b |-> mb, c |-> <<XY, XZ>>] : ma \in {<<XY>>, <<XZ, XY>>}, mb \in {<<XY>>, <<XY, XZ>>}}

CrossOrderBooks ==
    {[n \in Range(CrossNames) |-> [s \in {XY, XZ} |-> IF s = XY THEN f[n] ELSE BookXZ[n]]] :
        f \in [Range(CrossNames) -> ScanBooks]}

CrossArgs ==
    { [names |-> CrossNames, investment |-> INVESTMENT_AMOUNT, min_profit_pct |-> MIN_PROFIT_PCT,
       fee_pct |-> ESTIMATED_FEE_PCT, max_markets |-> MAX_MARKETS_PER_EXCHANGE],
      [names |-> CrossNames, investment |-> INVESTMENT_AMOUNT, min_profit_pct |-> N(0),
       fee_pct |-> ESTIMATED_FEE_PCT, max_markets |-> MAX_MARKETS_PER_EXCHANGE],
      [names |-> CrossNames, investment |-> INVESTMENT_AMOUNT, min_profit_pct |-> N(1),
       fee_pct |-> Q(1, 2), max_markets |-> MAX_MARKETS_PER_EXCHANGE],
      [names |-> CrossNames, investment |-> INVESTMENT_AMOUNT, min_profit_pct |-> MIN_PROFIT_PCT,
       fee_pct |-> ESTIMATED_FEE_PCT, max_markets |-> 1] }

InitScanCross ==
    /\ pc = "scan_cross_start"
    /\ args \in CrossArgs
    /\ markets \in CrossMarkets
    /\ order_books \in CrossOrderBooks
    /\ load_raises \in {{}, {"a"}, {"b"}, {"c"}}
    /\ ob_raises \in {{}, {<<"a", XY>>}, {<<"b", XY>>}, {<<"c", XZ>>}}
    /\ tickers = <<>>
    /\ ticker_raises = {}

AB == <<"A", "B">>
BC == <<"B", "C">>
CA == <<"C", "A">>
AC == <<"A", "C">>
CB == <<"C", "B">>
TriNames == <<"x", "y">>

TickerFull == [bid |-> N(2), ask |-> N(2), last |-> N(2)]
TickerLastOnly == [last |-> N(2)]

TriMarkets ==
    {[x |-> mx, y |-> <<AB>>] :
        mx \in {<<AB, BC, CA>>, <<AB, <<"JUNK">>, BC, CA, <<"A", "B", "C">>>>, <<AB, AC, CB, BC, CA>>}}

TriOrderBooks ==
    {[x |-> [s \in {AB, BC, CA, AC, CB} |->
                IF s = BC THEN b2 ELSE IF s = CA THEN b3 ELSE IF s = CB THEN TriBookHalf
                ELSE IF s = AC THEN TriBook4 ELSE TriBook2],
      y |-> [s \in {AB} |-> TriBook2]] :
        b2 \in {TriBook4, TriBookNoBid}, b3 \in {TriBookHalf, TriBookZeroBid}}

TriTickers ==
    {[x |-> [s \in {AB, BC, CA, AC, CB, <<"A", "B", "C">>} |-> IF s = BC THEN t ELSE TickerFull],
      y |-> [s \in {AB} |-> TickerLastOnly]] : t \in {TickerFull, None}}

TriArgs ==
    { [names |-> TriNames, min_profit_pct |-> MIN_PROFIT_PCT, fee_pct |-> ESTIMATED_FEE_PCT,
       max_markets |-> MAX_MARKETS_PER_EXCHANGE],
      [names |-> TriNames, min_profit_pct |-> N(-1000), fee_pct |-> Q(1, 2), max_markets |-> 4] }

InitScanTri ==
    /\ pc = "scan_tri_start"
    /\ args \in TriArgs
    /\ markets \in TriMarkets
    /\ order_books \in TriOrderBooks
    /\ tickers \in TriTickers
    /\ load_raises \in {{}, {"x"}}
    /\ ob_raises \in {{}, {<<"x", BC>>}}
    /\ ticker_raises \in {{}, {<<"x", CA>>}}

InitScan ==
    /\ InitScanCross \/ InitScanTri
    /\ call = <<>>
    /\ result = Infeasible
    /\ markets_by_ex = <<>>
    /\ todo = {}
    /\ prices = <<>>
    /\ currencies = <<>>
    /\ pos = <<>>
    /\ last_eval = <<>>
    /\ results = <<>>
    /\ FillIdle

NextScan ==
    \/ ScanCrossLoad
    \/ ScanCrossPair
    \/ ScanCrossSymbol
    \/ ScanCrossPairDone
    \/ ScanCrossReturn
    \/ ScanTriStart
    \/ ScanTriPrepare
    \/ ScanTriIterate
    \/ ScanTriExchangeDone
    \/ ScanTriReturn

SpecScan == InitScan /\ [][NextScan]_vars

---------------------------------------------------------------------------
(* Properties of the scanners (SpecScan).                                  *)

IsCrossScan == pc \in {"scan_cross_start", "scan_cross_pair", "scan_cross_syms", "scan_done"}
               /\ "investment" \in DOMAIN args
IsTriScan == pc \in {"scan_tri_start", "scan_tri_exchange", "scan_tri_loop", "scan_done"}
             /\ "investment" \notin DOMAIN args

\* a direction of a unit of work of the cross-exchange scan
Direction(sym, buy, sell) == [sym |-> sym, buy |-> buy, sell |-> sell]
DirectionsOver(listed) ==
    LET Names == Range(args.names)
    IN  {d \in [sym : UNION {listed[n] : n \in Names}, buy : Names, sell : Names] :
            d.buy # d.sell /\ d.sym \in listed[d.buy] \cap listed[d.sell]}
HasRecord(d) ==
    \E k \in 1..Len(results) :
        /\ results[k].pair = d.sym
        /\ results[k].buy_exchange = d.buy
        /\ results[k].sell_exchange = d.sell
DirectionOf(rec) == Direction(rec.pair, rec.buy_exchange, rec.sell_exchange)
Evaluation(d) == check_cross_exchange_liquidity(d.buy, d.sell, d.sym, args.investment)

\* the symbols each venue lists for the scan, as loaded
ListedLoaded == [n \in Range(args.names) |-> Range(markets_by_ex[n])]

CrossGross(rec) ==
    LET base_bought == compute_fillable_base_amount_from_asks(
                           safe_fetch_order_book(rec.buy_exchange, rec.pair), args.investment)
        qr == compute_fillable_quote_amount_from_bids(
                  safe_fetch_order_book(rec.sell_exchange, rec.pair), base_bought)
    IN  Div(qr, args.investment)

\* C7: every record's profit_percent is net of the fee estimate the scan was
\* given: (gross_ratio - 1) * 100 - fee_pct, at the record's six decimals.
C7_NetOfConfiguredFee ==
    (pc = "scan_done" /\ IsCrossScan) =>
        \A k \in 1..Len(results) :
            results[k].profit_percent =
                Round6(Sub(Mul(Sub(CrossGross(results[k]), N(1)), N(100)), args.fee_pct))

\* the legs of the latest triangular evaluation of the scan
LastOb(k) == safe_fetch_order_book(last_eval.exchange, last_eval.route[k])
LastLeg1 == compute_fillable_base_amount_from_asks(LastOb(1), INVESTMENT_AMOUNT)
LastLeg2 == compute_fillable_quote_amount_from_bids(LastOb(2), LastLeg1)
LastMid == Div(Add(TopPrice(LastOb(3), "bids"), TopPrice(LastOb(3), "asks")), N(2))

\* C4: for a route A/B, B/C, C/A that the triangular scan evaluates, with the
\* three books present, a positive leg-1 fill, a positive amount from selling it
\* into the bids of B/C and a positive best bid and ask on C/A, the evaluator
\* returns profit_percent = ((amount_after_leg2 * mid) / investment - 1) * 100
\* - fee_pct and feasible iff profit_percent >= min_profit_pct.
C4_TriangularProfit ==
    (IsTriScan /\ last_eval # <<>>
       /\ Truthy(LastOb(1)) /\ Truthy(LastOb(2)) /\ Truthy(LastOb(3))
       /\ IsPos(LastLeg1) /\ IsPos(LastLeg2)
       /\ TruthyNum(TopPrice(LastOb(3), "bids")) /\ IsPos(TopPrice(LastOb(3), "bids"))
       /\ TruthyNum(TopPrice(LastOb(3), "asks")) /\ IsPos(TopPrice(LastOb(3), "asks"))) =>
        /\ last_eval.result.profit_pct =
             Sub(Mul(Sub(Div(Mul(LastLeg2, LastMid), INVESTMENT_AMOUNT), N(1)), N(100)),
                 ESTIMATED_FEE_PCT)
        /\ last_eval.result.feasible <=> Leq(MIN_PROFIT_PCT, last_eval.result.profit_pct)

\* the provider's listing of a venue when nothing fails for it
ListedUnfailed ==
    [n \in Range(args.names) |->
        IF n \in load_raises THEN {}
        ELSE Range(SubSeq(markets[n], 1, Min(args.max_markets, Len(markets[n]))))]

\* a direction that no failure touches
Untouched(d) == <<d.buy, d.sym>> \notin ob_raises /\ <<d.sell, d.sym>> \notin ob_raises

\* the triangular routes of a venue with all three symbols priced
PricedRoutes(name) ==
    LET pm == PriceMap(name, safe_load_markets(name, args.max_markets), args.max_markets)
        cs == CurrencySet(pm)
    IN  {r \in cs \X cs \X cs :
            /\ r[1] # r[2] /\ r[2] # r[3] /\ r[1] # r[3]
            /\ {<<r[1], r[2]>>, <<r[2], r[3]>>, <<r[3], r[1]>>} \subseteq DOMAIN pm}

TriQualifies(name, r) ==
    LET e == simulate_triangular_with_depth(
                 name, <<<<r[1], r[2]>>, <<r[2], r[3]>>, <<r[3], r[1]>>>>, INVESTMENT_AMOUNT)
    IN  e.feasible /\ Leq(args.min_profit_pct, e.profit_pct)

\* the variant of the scans' loops: what is left of them, counted so that every
\* step of a scan lowers it and a returned scan has 0
ListedSymbols == UNION {Range(markets[n]) : n \in DOMAIN markets}
ScanVariant ==
    LET NP == Len(Pairs(Len(args.names)))
        W == Cardinality(ListedSymbols) + 2
        NE == Len(args.names)
        NC == Cardinality(UNION {Range(s) : s \in ListedSymbols})
        V == NC * NC * NC + 3
    IN  CASE pc = "scan_cross_start" -> (NP + 1) * W + 2
          [] pc = "scan_cross_pair" -> (NP + 1 - pos.p) * W + 1
          [] pc = "scan_cross_syms" ->
                 (NP + 1 - pos.p) * W - (Cardinality(ListedSymbols) - Cardinality(todo))
          [] pc = "scan_tri_start" -> (NE + 1) * V + 2
          [] pc = "scan_tri_exchange" -> (NE + 1 - pos.e) * V + 1
          [] pc = "scan_tri_loop" -> (NE + 1 - pos.e) * V - pos.t
          [] OTHER -> 0

\* what a returned scan's list holds under the provider's failures: a record
\* exactly for the units of work that no failure touches and that qualify
ReturnedAsUnfailed ==
    /\ (pc = "scan_done" /\ IsCrossScan) =>
         /\ \A d \in DirectionsOver(ListedUnfailed) :
              HasRecord(d) <=> (Untouched(d) /\ Evaluation(d).feasible
                                /\ Leq(args.min_profit_pct, Evaluation(d).profit_pct))
         /\ \A k \in 1..Len(results) :
              /\ DirectionOf(results[k]) \in DirectionsOver(ListedUnfailed)
              /\ results[k].profit_percent = Round6(Evaluation(DirectionOf(results[k])).profit_pct)
    /\ (pc = "scan_done" /\ IsTriScan) =>
         /\ \A n \in Range(args.names) : \A r \in PricedRoutes(n) :
              TriQualifies(n, r) <=>
                  \E k \in 1..Len(results) :
                      results[k].exchange = n /\ results[k].route = <<r[1], r[2], r[3], r[1]>>
         /\ \A k \in 1..Len(results) :
              <<results[k].route[1], results[k].route[2], results[k].route[3]>>
                  \in PricedRoutes(results[k].exchange)

\* C10: under any of the provider's failures every step of a scan lowers the
\* variant of its loops, so the scan runs to its return, and the list it returns
\* holds a record exactly for the units of work that no failure touches and
\* that qualify: a venue whose listing fails counts as listing nothing, a
\* direction whose order-book fetch fails gives no record, and every other unit
\* gives the record it gives without the failure.
C10_FailuresIsolated ==
    /\ []ReturnedAsUnfailed
    /\ [][ScanVariant' < ScanVariant /\ ScanVariant' >= 0]_vars

\* venue a's listing failed and the fetch of b's X/Y book failed; the scan has
\* returned with the record of X/Z between b and c and none touching a or b's X/Y
C10_Witness ==
    /\ pc = "scan_done"
    /\ IsCrossScan
    /\ load_raises = {"a"}
    /\ ob_raises = {<<"b", XY>>}
    /\ XY \in Range(markets["a"]) /\ XY \in Range(markets["b"])
    /\ order_books["b"][XY] = BookLow
    /\ order_books["c"][XY] = BookHigh
    /\ Len(results) = 1
    /\ results[1].pair = XZ
    /\ results[1].buy_exchange = "b"
    /\ results[1].sell_exchange = "c"

=============================================================================
